---- MODULE Spec2Model ----
(***************************************************************************)
(* The four-column news board of src/src/app/page.tsx: the layout state    *)
(* `columns` of the Home component, its reconciliation with freshly        *)
(* fetched posts (the useEffect on `data`) and the drag-end move           *)
(* (handleDragEnd).  A post is modelled by its numeric id, the only field  *)
(* the layout logic reads; identifiers are compared as strings exactly as  *)
(* getPostId / String(...) make them.  JavaScript arrays are 0-based: a    *)
(* column index is in 0..COLUMN_COUNT-1 and array index k is element k+1   *)
(* of the TLA+ sequence.                                                   *)
(***************************************************************************)
EXTENDS Integers, Sequences, FiniteSets, TLC

VARIABLES columns, data, error, drag, last

vars == <<columns, data, error, drag, last>>

COLUMN_COUNT == 4

\* Post ids 1..MaxFeedId are the ones the feed of the state machine delivers.
MaxFeedId == 2
\* Post ids 1..MaxId make the layouts and inputs of the single-transition
\* specifications (one reconciliation, one drag-end move).
MaxId == 3
\* Longest incoming list when the feed may repeat an identifier.
MaxLen == 3
\* Number of distinct posts in the first-fetch (balance) scenario.
MaxFirst == 5

(***************************************************************************)
(* Values                                                                  *)
(***************************************************************************)
ColumnIndexes == 0 .. (COLUMN_COUNT - 1)

\* useSWR's `data` before any successful fetch, and after one.
undefined == [defined |-> FALSE]
Loaded(posts) == [defined |-> TRUE, posts |-> posts]

\* DragEndEvent.over: null, or the droppable under the pointer.
null == [present |-> FALSE]
Over(id) == [present |-> TRUE, id |-> id]

getPostId(post) == ToString(post)

\* Faulty variant: the identities are numbered from 1.
columnIdOneBased(index) == "column-" \o ToString(index + 1)

columnId(index) == "column-" \o ToString(index)

createEmptyColumns ==
    [index \in ColumnIndexes |-> [id |-> columnId(index), posts |-> <<>>]]

(***************************************************************************)
(* Array helpers, as the JavaScript built-ins behave                       *)
(***************************************************************************)
\* Array.prototype.findIndex on a posts array: first 0-based index whose
\* post has the given id, or -1.
findPostIndex(posts, id) ==
    LET hits == {i \in DOMAIN posts : getPostId(posts[i]) = id}
    IN  IF hits = {} THEN -1
        ELSE (CHOOSE i \in hits : \A j \in hits : i <= j) - 1

\* column.posts.some((post) => getPostId(post) === id)
somePost(posts, id) == \E i \in DOMAIN posts : getPostId(posts[i]) = id

\* Faulty variant: the splice takes nothing out of the array.
spliceOutNothing(posts, index) == posts

\* posts.splice(index, 1): the array without the element at 0-based index.
spliceOut(posts, index) ==
    [i \in 1 .. (Len(posts) - 1) |->
        IF i <= index THEN posts[i] ELSE posts[i + 1]]

\* Faulty variant: the splice overwrites the element at index instead of
\* shifting it.
spliceInReplacing(posts, index, post) ==
    IF index >= Len(posts) THEN Append(posts, post)
    ELSE [posts EXCEPT ![index + 1] = post]

\* posts.splice(index, 0, post): the array with post inserted at 0-based index.
spliceIn(posts, index, post) ==
    [i \in 1 .. (Len(posts) + 1) |->
        IF i <= index THEN posts[i]
        ELSE IF i = index + 1 THEN post
        ELSE posts[i - 1]]

(***************************************************************************)
(* Reconciliation: the setColumns updater of the useEffect on `data`       *)
(***************************************************************************)
incomingIds(posts) == {getPostId(posts[i]) : i \in DOMAIN posts}

\* Faulty variant: each column is rebuilt from the incoming list, in the feed's order.
filterColumnsInFeedOrder(prevColumns, posts) ==
    [c \in DOMAIN prevColumns |->
        [prevColumns[c] EXCEPT
            !.posts = SelectSeq(posts, LAMBDA p : somePost(prevColumns[c].posts, getPostId(p)))]]

filterColumns(prevColumns, posts) ==
    [c \in DOMAIN prevColumns |->
        [prevColumns[c] EXCEPT
            !.posts = SelectSeq(@, LAMBDA p : getPostId(p) \in incomingIds(posts))]]

existingIds(filtered) ==
    UNION {{getPostId(filtered[c].posts[i]) : i \in DOMAIN filtered[c].posts} :
              c \in DOMAIN filtered}

\* Faulty variant: every incoming post counts as new.
newPostsUnchecked(filtered, posts) == posts

newPosts(filtered, posts) ==
    SelectSeq(posts, LAMBDA p : getPostId(p) \notin existingIds(filtered))

\* Faulty variant: a later column of equal length replaces the running minimum.
RECURSIVE reduceMinLastWins(_, _, _)
reduceMinLastWins(nextColumns, minIndex, idx) ==
    IF idx >= COLUMN_COUNT THEN minIndex
    ELSE IF Len(nextColumns[idx].posts) <= Len(nextColumns[minIndex].posts)
         THEN reduceMinLastWins(nextColumns, idx, idx + 1)
         ELSE reduceMinLastWins(nextColumns, minIndex, idx + 1)

\* nextColumns.reduce((minIndex, column, idx) => ..., 0): a later column
\* replaces the running minimum only when it is strictly shorter.
RECURSIVE reduceMin(_, _, _)
reduceMin(nextColumns, minIndex, idx) ==
    IF idx >= COLUMN_COUNT THEN minIndex
    ELSE IF Len(nextColumns[idx].posts) < Len(nextColumns[minIndex].posts)
         THEN reduceMin(nextColumns, idx, idx + 1)
         ELSE reduceMin(nextColumns, minIndex, idx + 1)

\* Faulty variant: new posts always go to the first column.
targetIndexFirst(nextColumns) == 0

targetIndexOf(nextColumns) == reduceMin(nextColumns, 0, 0)

\* Faulty variant: the target column is chosen once, before any new post is
\* pushed, so every new post of one reconciliation goes to that column.
placeEachStaleSizes(nextColumns, posts) ==
    IF posts = <<>> THEN nextColumns
    ELSE [nextColumns EXCEPT ![targetIndexOf(nextColumns)].posts = @ \o posts]

\* newPosts.forEach(post => nextColumns[targetIndex].posts.push(post))
RECURSIVE placeEach(_, _)
placeEach(nextColumns, posts) ==
    IF posts = <<>> THEN nextColumns
    ELSE LET targetIndex == targetIndexOf(nextColumns)
         IN  placeEach(
                 [nextColumns EXCEPT ![targetIndex].posts = Append(@, Head(posts))],
                 Tail(posts))

\* Faulty variant: every reconciliation deals the whole list afresh.
reconcileFromScratch(prevColumns, posts) == placeEach(createEmptyColumns, posts)

reconcile(prevColumns, posts) ==
    LET filtered == filterColumns(prevColumns, posts)
        fresh == newPosts(filtered, posts)
    IN  IF Len(fresh) = 0 THEN filtered ELSE placeEach(filtered, fresh)

\* Faulty variant: the guard of the effect also returns on an empty list.
effectColumnsSkipEmpty(prevColumns, d) ==
    IF ~d.defined THEN prevColumns
    ELSE IF d.posts = <<>> THEN prevColumns
    ELSE reconcile(prevColumns, d.posts)

\* The effect body: nothing is queued while `data` is undefined.
effectColumns(prevColumns, d) ==
    IF ~d.defined THEN prevColumns ELSE reconcile(prevColumns, d.posts)

(***************************************************************************)
(* Move application: the setColumns updater of handleDragEnd               *)
(***************************************************************************)
\* prevColumns.findIndex(column => column.posts.some(id matches))
sourceColumnIndexOf(prevColumns, activeId) ==
    LET hits == {c \in DOMAIN prevColumns : somePost(prevColumns[c].posts, activeId)}
    IN  IF hits = {} THEN -1 ELSE CHOOSE c \in hits : \A e \in hits : c <= e

\* Faulty variant: an unresolved target falls back to the first column.
targetColumnIndexOrFirst(prevColumns, overId) ==
    LET hits == {c \in DOMAIN prevColumns :
                    \/ prevColumns[c].id = overId
                    \/ somePost(prevColumns[c].posts, overId)}
    IN  IF hits = {} THEN 0 ELSE CHOOSE c \in hits : \A e \in hits : c <= e

\* prevColumns.findIndex(column => column.id === overId || some post matches)
targetColumnIndexOf(prevColumns, overId) ==
    LET hits == {c \in DOMAIN prevColumns :
                    \/ prevColumns[c].id = overId
                    \/ somePost(prevColumns[c].posts, overId)}
    IN  IF hits = {} THEN -1 ELSE CHOOSE c \in hits : \A e \in hits : c <= e

\* Faulty variant: a target that is not a card of the column puts the post
\* on top of the column.
insertIndexOrTop(targetPosts, overId) ==
    LET targetPostIndex == findPostIndex(targetPosts, overId)
    IN  IF targetPostIndex >= 0 THEN targetPostIndex ELSE 0

\* Faulty variant: the post is put after the card it was dropped on.
insertIndexAfter(targetPosts, overId) ==
    LET targetPostIndex == findPostIndex(targetPosts, overId)
    IN  IF targetPostIndex >= 0 THEN targetPostIndex + 1 ELSE Len(targetPosts)

\* targetPostIndex >= 0 ? targetPostIndex : targetPosts.length
insertIndexOf(targetPosts, overId) ==
    LET targetPostIndex == findPostIndex(targetPosts, overId)
    IN  IF targetPostIndex >= 0 THEN targetPostIndex ELSE Len(targetPosts)

\* Faulty variant: in the post's own column the insert index is looked up
\* before the post is taken out.
relocateStaleIndex(prevColumns, sourceColumnIndex, targetColumnIndex, activeId, overId) ==
    LET movingIndex == findPostIndex(prevColumns[sourceColumnIndex].posts, activeId)
    IN  IF movingIndex = -1 THEN prevColumns ELSE
        LET movingPost == prevColumns[sourceColumnIndex].posts[movingIndex + 1]
            sourcePosts == spliceOut(prevColumns[sourceColumnIndex].posts, movingIndex)
            updatedColumns == [prevColumns EXCEPT ![sourceColumnIndex].posts = sourcePosts]
            targetPosts == updatedColumns[targetColumnIndex].posts
            staleIndex == insertIndexOf(prevColumns[sourceColumnIndex].posts, overId)
        IN  IF sourceColumnIndex = targetColumnIndex
            THEN [updatedColumns EXCEPT ![targetColumnIndex].posts =
                      spliceIn(targetPosts,
                               IF staleIndex > Len(targetPosts)
                               THEN Len(targetPosts) ELSE staleIndex,
                               movingPost)]
            ELSE IF updatedColumns[targetColumnIndex].id = overId
            THEN [updatedColumns EXCEPT ![targetColumnIndex].posts =
                      Append(targetPosts, movingPost)]
            ELSE [updatedColumns EXCEPT ![targetColumnIndex].posts =
                      spliceIn(targetPosts, insertIndexOf(targetPosts, overId), movingPost)]

\* The copy-and-splice part of the updater: take the post out of its
\* column and put it into the target column.
relocate(prevColumns, sourceColumnIndex, targetColumnIndex, activeId, overId) ==
    LET movingIndex == findPostIndex(prevColumns[sourceColumnIndex].posts, activeId)
    IN  IF movingIndex = -1 THEN prevColumns ELSE
        LET movingPost == prevColumns[sourceColumnIndex].posts[movingIndex + 1]
            sourcePosts == spliceOut(prevColumns[sourceColumnIndex].posts, movingIndex)
            updatedColumns == [prevColumns EXCEPT ![sourceColumnIndex].posts = sourcePosts]
            targetPosts == updatedColumns[targetColumnIndex].posts
        IN  IF sourceColumnIndex = targetColumnIndex
            THEN [updatedColumns EXCEPT ![targetColumnIndex].posts =
                      spliceIn(targetPosts, insertIndexOf(targetPosts, overId), movingPost)]
            ELSE IF updatedColumns[targetColumnIndex].id = overId
            THEN [updatedColumns EXCEPT ![targetColumnIndex].posts =
                      Append(targetPosts, movingPost)]
            ELSE [updatedColumns EXCEPT ![targetColumnIndex].posts =
                      spliceIn(targetPosts, insertIndexOf(targetPosts, overId), movingPost)]

\* Faulty variant: a dragged post that is no longer on the board is put
\* back, at the end of the column it was dropped on.
moveColumnsRestoring(prevColumns, activeId, overId) ==
    LET sourceColumnIndex == sourceColumnIndexOf(prevColumns, activeId)
        targetColumnIndex == targetColumnIndexOf(prevColumns, overId)
    IN  IF sourceColumnIndex = -1 /\ targetColumnIndex # -1
        THEN [prevColumns EXCEPT ![targetColumnIndex].posts =
                  Append(@, CHOOSE post \in 1 .. MaxId : getPostId(post) = activeId)]
        ELSE IF sourceColumnIndex = -1 THEN prevColumns
        ELSE IF targetColumnIndex = -1 THEN prevColumns
        ELSE IF sourceColumnIndex = targetColumnIndex /\ overId = activeId
             THEN prevColumns
        ELSE relocate(prevColumns, sourceColumnIndex, targetColumnIndex, activeId, overId)

\* Faulty variant: a drop of a card on itself is not short-circuited.
moveColumnsNoSelfCheck(prevColumns, activeId, overId) ==
    LET sourceColumnIndex == sourceColumnIndexOf(prevColumns, activeId)
        targetColumnIndex == targetColumnIndexOf(prevColumns, overId)
    IN  IF sourceColumnIndex = -1 THEN prevColumns
        ELSE IF targetColumnIndex = -1 THEN prevColumns
        ELSE relocate(prevColumns, sourceColumnIndex, targetColumnIndex, activeId, overId)

moveColumns(prevColumns, activeId, overId) ==
    LET sourceColumnIndex == sourceColumnIndexOf(prevColumns, activeId)
        targetColumnIndex == targetColumnIndexOf(prevColumns, overId)
    IN  IF sourceColumnIndex = -1 THEN prevColumns
        ELSE IF targetColumnIndex = -1 THEN prevColumns
        ELSE IF sourceColumnIndex = targetColumnIndex /\ overId = activeId
             THEN prevColumns
        ELSE relocate(prevColumns, sourceColumnIndex, targetColumnIndex, activeId, overId)

\* handleDragEnd({active, over}): no update is queued when over is null.
handleDragEnd(prevColumns, activeId, over) ==
    IF ~over.present THEN prevColumns
    ELSE moveColumns(prevColumns, activeId, over.id)

(***************************************************************************)
(* The page as a state machine                                             *)
(***************************************************************************)
PostIds == 1 .. MaxFeedId

\* Lists of posts with pairwise distinct ids, in any order (a well-formed feed).
distinctLists(ids) ==
    {s \in UNION {[1 .. n -> ids] : n \in 0 .. Cardinality(ids)} :
        \A i, j \in DOMAIN s : i # j => s[i] # s[j]}

FeedLists == distinctLists(PostIds)

\* What dnd-kit can report as `over`: nothing, a column, a card, or an id
\* that matches nothing on the board.
overTargets(ids) ==
    {null} \cup {Over(columnId(c)) : c \in ColumnIndexes}
           \cup {Over(getPostId(p)) : p \in ids}
           \cup {Over("nonexistent")}

OverTargets == overTargets(PostIds)

NoDrag == [active |-> FALSE]
Dragging(id) == [active |-> TRUE, id |-> id]

\* A gesture together with the identifiers of the cards that were rendered
\* when it began.
DraggingOn(id, cols) == [active |-> TRUE, id |-> id, shown |-> existingIds(cols)]

hasPosts(cols) == \E c \in DOMAIN cols : Len(cols[c].posts) > 0

\* The DndContext is rendered only without an error and with posts on the
\* board (isLoading is false as soon as data has been loaded once).
dndRendered(cols, err) == ~err /\ hasPosts(cols)

Init ==
    /\ columns = createEmptyColumns
    /\ data = undefined
    /\ error = FALSE
    /\ drag = NoDrag
    /\ last = [op |-> "render"]

\* The effect's first run, right after the first render: data is undefined.
MountEffect ==
    /\ last.op = "render"
    /\ columns' = effectColumns(columns, data)
    /\ last' = [op |-> "mount"]
    /\ UNCHANGED <<data, error, drag>>

\* A fetch resolves with a list: data changes, so the effect runs on it.
fetchResolved(posts) ==
    /\ last.op # "render"
    /\ data' = Loaded(posts)
    /\ error' = FALSE
    /\ columns' = effectColumns(columns, data')
    /\ drag' = IF drag.active /\ dndRendered(columns', error') THEN drag ELSE NoDrag

\* Faulty variant: a list that arrives during a drag is not reconciled.
FetchSuccessDeferred(posts) ==
    /\ last.op # "render"
    /\ data' = Loaded(posts)
    /\ error' = FALSE
    /\ columns' = IF drag.active THEN columns ELSE effectColumns(columns, data')
    /\ drag' = IF drag.active /\ dndRendered(columns', error') THEN drag ELSE NoDrag
    /\ last' = [op |-> "fetchOk"]

FetchSuccess(posts) ==
    /\ fetchResolved(posts)
    /\ last' = [op |-> "fetchOk"]

\* Faulty variant: a failed fetch is reconciled as an empty list.
FetchFailAsEmptyList ==
    /\ last.op # "render"
    /\ error' = TRUE
    /\ data' = data
    /\ columns' = reconcile(columns, <<>>)
    /\ drag' = NoDrag
    /\ last' = [op |-> "fetchFail"]

\* A fetch rejects: SWR sets error and keeps data, so the effect, which
\* depends on [data] alone, does not run.
FetchFail ==
    /\ last.op # "render"
    /\ error' = TRUE
    /\ data' = data
    /\ columns' = columns
    /\ drag' = NoDrag
    /\ last' = [op |-> "fetchFail"]

\* The pointer picks up a rendered card.
DragStart(post) ==
    /\ last.op # "render"
    /\ dndRendered(columns, error)
    /\ ~drag.active
    /\ \E c \in DOMAIN columns : somePost(columns[c].posts, getPostId(post))
    /\ drag' = DraggingOn(getPostId(post), columns)
    /\ last' = [op |-> "dragStart"]
    /\ UNCHANGED <<columns, data, error>>

dropped(over) ==
    /\ drag.active
    /\ columns' = handleDragEnd(columns, drag.id, over)
    /\ drag' = NoDrag
    /\ UNCHANGED <<data, error>>

DragEnd(over) ==
    /\ dropped(over)
    /\ last' = [op |-> "dragEnd", activeId |-> drag.id, over |-> over,
                shown |-> drag.shown]

Next ==
    \/ MountEffect
    \/ \E posts \in FeedLists : FetchSuccess(posts)
    \/ FetchFail
    \/ \E post \in PostIds : DragStart(post)
    \/ \E over \in OverTargets : DragEnd(over)

Spec == Init /\ [][Next]_vars

(***************************************************************************)
(* Single-transition specifications: one reconciliation or one drag-end    *)
(* move applied to every board with distinct posts over 1..MaxId.  Each    *)
(* such board is one the page can show: fetch its posts, then drag them    *)
(* into place.  `last` keeps the transition's inputs and the board before. *)
(***************************************************************************)
BoardIds == 1 .. MaxId

\* The posts of `posts` dealt over the columns in order, cut at `cuts`.
layoutOf(posts, cuts) ==
    [c \in ColumnIndexes |->
        [id |-> columnId(c),
         posts |-> SubSeq(posts,
                          (IF c = 0 THEN 0 ELSE cuts[c]) + 1,
                          IF c = COLUMN_COUNT - 1 THEN Len(posts) ELSE cuts[c + 1])]]

cutsOf(n) ==
    {cuts \in [1 .. (COLUMN_COUNT - 1) -> 0 .. n] :
        \A c \in 1 .. (COLUMN_COUNT - 2) : cuts[c] <= cuts[c + 1]}

\* A board and a list the feed can have delivered for it.
Boards ==
    {[columns |-> layoutOf(posts, cuts),
      data |-> IF posts = <<>> THEN undefined ELSE Loaded(posts)] :
        <<posts, cuts>> \in UNION {{<<s, k>> : k \in cutsOf(Len(s))} :
                                       s \in distinctLists(BoardIds)}}

\* Incoming lists of a feed that may repeat an identifier.
anyLists(ids, maxLen) == UNION {[1 .. n -> ids] : n \in 0 .. maxLen}

\* --- one drag-end move ---
InitMove ==
    \E board \in Boards, post \in BoardIds :
        /\ hasPosts(board.columns)
        /\ columns = board.columns
        /\ data = board.data
        /\ error = FALSE
        /\ drag = Dragging(getPostId(post))
        /\ last = [op |-> "given"]

Drop(over) ==
    /\ last.op = "given"
    /\ dropped(over)
    /\ last' = [op |-> "dragEnd", prev |-> columns,
                activeId |-> drag.id, over |-> over]

NextMove == \E over \in overTargets(BoardIds) : Drop(over)

SpecMove == InitMove /\ [][NextMove]_vars

\* --- one drag-end move on a board that may hold a post more than once
\* (a feed that repeats a new identifier leaves such a board) ---
InitMoveAny ==
    \E posts \in anyLists(BoardIds, MaxLen), post \in BoardIds :
        \E cuts \in cutsOf(Len(posts)) :
            /\ posts # <<>>
            /\ columns = layoutOf(posts, cuts)
            /\ data = Loaded(posts)
            /\ error = FALSE
            /\ drag = Dragging(getPostId(post))
            /\ last = [op |-> "given"]

SpecMoveAny == InitMoveAny /\ [][NextMove]_vars

\* --- one reconciliation ---
InitReconcile ==
    \E board \in Boards :
        /\ columns = board.columns
        /\ data = board.data
        /\ error = FALSE
        /\ drag = NoDrag
        /\ last = [op |-> "given"]

Refetch(posts) ==
    /\ last.op = "given"
    /\ fetchResolved(posts)
    /\ last' = [op |-> "fetchOk", prev |-> columns, incoming |-> posts]

NextReconcile == \E posts \in anyLists(BoardIds, MaxLen) : Refetch(posts)

SpecReconcile == InitReconcile /\ [][NextReconcile]_vars

\* --- reconciliations in a row: a post can leave the board with one list
\* and come back with a later one ---
boardsOver(ids) ==
    {[columns |-> layoutOf(posts, cuts),
      data |-> IF posts = <<>> THEN undefined ELSE Loaded(posts)] :
        <<posts, cuts>> \in UNION {{<<s, k>> : k \in cutsOf(Len(s))} :
                                       s \in distinctLists(ids)}}

InitReturn ==
    \E board \in boardsOver(PostIds) :
        /\ columns = board.columns
        /\ data = board.data
        /\ error = FALSE
        /\ drag = NoDrag
        /\ last = [op |-> "given"]

\* A later reconciliation; `first` stays the board the run began with.
RefetchAgain(posts) ==
    /\ last.op \in {"fetchOk", "fetchAgain"}
    /\ fetchResolved(posts)
    /\ last' = [op |-> "fetchAgain",
                first |-> IF last.op = "fetchOk" THEN last.prev ELSE last.first,
                prev |-> columns, incoming |-> posts]

NextReturn ==
    \/ \E posts \in FeedLists : Refetch(posts)
    \/ \E posts \in FeedLists : RefetchAgain(posts)

SpecReturn == InitReturn /\ [][NextReturn]_vars

\* --- the first fetch of a session, up to MaxFirst distinct posts ---
FirstFetch(posts) ==
    /\ last.op = "mount"
    /\ fetchResolved(posts)
    /\ last' = [op |-> "fetchOk", prev |-> columns, incoming |-> posts]

NextFirst ==
    \/ MountEffect
    \/ \E posts \in distinctLists(1 .. MaxFirst) : FirstFetch(posts)

SpecFirst == Init /\ [][NextFirst]_vars

(***************************************************************************)
(* Properties                                                              *)
(***************************************************************************)
\* The identifiers of column c, top to bottom.
idsAt(cols, c) == [i \in DOMAIN cols[c].posts |-> getPostId(cols[c].posts[i])]

\* Every place <<column, position>> of the board that holds the identifier.
placesOf(cols, id) ==
    UNION {{<<c, i>> : i \in {k \in DOMAIN cols[c].posts : getPostId(cols[c].posts[k]) = id}} :
              c \in DOMAIN cols}

boardIds(cols) == UNION {{idsAt(cols, c)[i] : i \in DOMAIN cols[c].posts} : c \in DOMAIN cols}

isPlaced(cols, id) == id \in boardIds(cols)

\* C1: once a reconciliation has run, every identifier of the latest
\* reconciled list is in exactly one column, exactly once, and no column
\* holds an identifier that is absent from that list (feed lists have
\* pairwise distinct identifiers).
C1_Coverage ==
    data.defined =>
        /\ \A id \in incomingIds(data.posts) : Cardinality(placesOf(columns, id)) = 1
        /\ boardIds(columns) \subseteq incomingIds(data.posts)

\* Both posts are on the board, in one column, after a drag-end move.
C1_Witness ==
    /\ last.op = "dragEnd"
    /\ data.defined /\ Len(data.posts) = 2
    /\ \E c \in ColumnIndexes : Len(columns[c].posts) = 2

\* C4: reconciling again with the list that was reconciled last gives the
\* same board, column by column and position by position, right after the
\* reconciliation and after any drag-end moves that followed it.
C4_RepeatFetchKeepsBoard ==
    data.defined => reconcile(columns, data.posts) = columns

\* The same for one reconciliation of any board of distinct posts with any
\* list, repeats included: reconciling the list once more changes nothing.
RepeatReconcileIsIdentity ==
    last.op = "fetchOk" => reconcile(columns, last.incoming) = columns

\* A board rearranged by a drag since its list was reconciled: post 1 and
\* post 2 of the list [1, 2] share column 3, post 2 first.
C4_Witness ==
    /\ last.op = "dragEnd"
    /\ data = Loaded(<<1, 2>>)
    /\ idsAt(columns, COLUMN_COUNT - 1) = <<"2", "1">>

\* C9: a failed fetch delivers no list and leaves the board as it was:
\* same columns, same identifiers, same order; the loaded list stays too.
C9_FailedFetchKeepsBoard ==
    [][last'.op = "fetchFail" => columns' = columns /\ data' = data]_vars

\* A fetch has failed while posts are on the board.
C9_Witness ==
    /\ last.op = "fetchFail"
    /\ error
    /\ hasPosts(columns)

\* C10 as stated: a list that arrives while a drag is in progress does not
\* change the board as long as the drag has not ended.
C10_DeferredUntilDragEnd ==
    [][drag.active /\ drag'.active /\ last'.op = "fetchOk" => columns' = columns]_vars

\* C10 amended: a list that arrives while a drag is in progress is
\* reconciled at once, in one step, and the gesture goes on if the board is
\* still shown; the drag-end move is then applied to the board as it is at
\* the drop, whatever it was when the drag started.
C10_ReconciledAtOnce ==
    [][/\ drag.active /\ last'.op = "fetchOk" =>
            /\ columns' = reconcile(columns, data'.posts)
            /\ drag' = IF hasPosts(columns') THEN drag ELSE NoDrag
       /\ last'.op = "dragEnd" =>
            \E over \in OverTargets : columns' = handleDragEnd(columns, drag.id, over)]_vars

\* A reconciliation has run during a drag and removed the dragged post.
C10_Witness ==
    /\ last.op = "fetchOk"
    /\ drag.active
    /\ ~isPlaced(columns, drag.id)

\* C2: one reconciliation of a board of distinct posts with a list that
\* may repeat an identifier leaves no identifier twice on the board.
C2_NoIdentifierTwice ==
    last.op = "fetchOk" =>
        \A id \in incomingIds(last.incoming) : Cardinality(placesOf(columns, id)) <= 1

\* The identifiers of column c of the board before that are in the list.
survivorsAt(c) ==
    SelectSeq(idsAt(last.prev, c), LAMBDA id : id \in incomingIds(last.incoming))

\* C3: after one reconciliation every column still has its identity and
\* starts with exactly the identifiers it held before that are in the
\* incoming list, in their old order; whatever follows them was not on the
\* board before and is in the incoming list.
C3_SurvivorsStayNewOnesFollow ==
    last.op = "fetchOk" =>
        \A c \in ColumnIndexes :
            LET kept == survivorsAt(c)
                now == idsAt(columns, c)
            IN  /\ columns[c].id = last.prev[c].id
                /\ Len(now) >= Len(kept)
                /\ SubSeq(now, 1, Len(kept)) = kept
                /\ \A i \in (Len(kept) + 1) .. Len(now) :
                       /\ ~isPlaced(last.prev, now[i])
                       /\ now[i] \in incomingIds(last.incoming)

\* A reconciliation that removed a post from a column, kept two others of
\* that column, listed in the opposite order by the feed, and placed nothing.
C3_Witness ==
    /\ last.op = "fetchOk"
    /\ idsAt(last.prev, 0) = <<"3", "2", "1">>
    /\ last.incoming = <<1, 3>>
    /\ idsAt(columns, 0) = <<"3", "1">>

\* A reconciliation that kept a post and placed a new one.
C3_WitnessNew ==
    /\ last.op = "fetchOk"
    /\ idsAt(last.prev, 0) = <<"2", "1">>
    /\ last.incoming = <<1, 3>>
    /\ idsAt(columns, 0) = <<"1">>
    /\ idsAt(columns, 1) = <<"3">>

\* The board [[1,2],[3],[],[]] and what dropping 2 on 3 makes of it.
MoveExampleBefore == layoutOf(<<1, 2, 3>>, <<2, 3, 3>>)
MoveExampleAfter == layoutOf(<<1, 2, 3>>, <<1, 3, 3>>)

\* C5: on a board of distinct posts, a drop of a placed post on another
\* placed post leaves the dragged post once on the board, in the column of
\* the post it was dropped on and immediately before it; dropping 2 on 3 in
\* [[1,2],[3],[],[]] gives [[1],[2,3],[],[]].
C5_LandsBeforeOver ==
    (/\ last.op = "dragEnd"
     /\ last.over.present
     /\ isPlaced(last.prev, last.activeId)
     /\ isPlaced(last.prev, last.over.id)
     /\ last.over.id # last.activeId) =>
        /\ Cardinality(placesOf(columns, last.activeId)) = 1
        /\ \E c \in ColumnIndexes :
              /\ \E i \in DOMAIN last.prev[c].posts : idsAt(last.prev, c)[i] = last.over.id
              /\ \E i \in 1 .. (Len(columns[c].posts) - 1) :
                    /\ idsAt(columns, c)[i] = last.activeId
                    /\ idsAt(columns, c)[i + 1] = last.over.id
        /\ (last.prev = MoveExampleBefore /\ last.activeId = "2" /\ last.over.id = "3")
              => columns = MoveExampleAfter

\* Post 2 of [[1,2],[3],[],[]] has been dropped on post 3.
C5_Witness ==
    /\ last.op = "dragEnd"
    /\ last.prev = MoveExampleBefore
    /\ last.activeId = "2"
    /\ last.over = Over("3")
    /\ columns = MoveExampleAfter

\* The bottom post of a column has been dropped on the top post of the
\* same column, with a third post between them.
C5_WitnessSameColumn ==
    /\ last.op = "dragEnd"
    /\ idsAt(last.prev, 1) = <<"1", "2", "3">>
    /\ last.activeId = "3"
    /\ last.over = Over("1")
    /\ idsAt(columns, 1) = <<"3", "1", "2">>

ColumnIds == {columnId(c) : c \in ColumnIndexes}

\* C6: a drop with no over target, or of a post that is in no column, or on
\* an id that is neither a column nor a placed post, leaves every column
\* with the same identifiers in the same order.
C6_UnresolvedDropKeepsBoard ==
    (/\ last.op = "dragEnd"
     /\ \/ ~last.over.present
        \/ ~isPlaced(last.prev, last.activeId)
        \/ /\ last.over.present
           /\ last.over.id \notin ColumnIds
           /\ ~isPlaced(last.prev, last.over.id)) =>
        columns = last.prev

\* Post 1 of [[1],[],[],[]] has been dropped on "nonexistent".
C6_Witness ==
    /\ last.op = "dragEnd"
    /\ last.prev = layoutOf(<<1>>, <<1, 1, 1>>)
    /\ last.activeId = "1"
    /\ last.over = Over("nonexistent")

\* C7: a drop of a post on itself leaves every column with the same
\* identifiers in the same order.
C7_SelfDropKeepsBoard ==
    (/\ last.op = "dragEnd"
     /\ last.over.present
     /\ last.over.id = last.activeId) =>
        columns = last.prev

\* The top post of a column of three has been dropped on itself.
C7_Witness ==
    /\ last.op = "dragEnd"
    /\ idsAt(last.prev, 2) = <<"1", "2", "3">>
    /\ last.activeId = "1"
    /\ last.over = Over("1")

\* C8: the first reconciliation, of k distinct posts into the empty board,
\* puts the i-th post (from 0) at position floor(i/4) of column i mod 4 and
\* nothing else anywhere, so column sizes differ by at most one; for
\* [1,2,3,4,5] that is 1,5 in column 0 and 2, 3, 4 in columns 1, 2, 3.
C8_RoundRobin ==
    (last.op = "fetchOk" /\ last.prev = createEmptyColumns) =>
        LET k == Len(last.incoming)
        IN  /\ \A i \in 0 .. (k - 1) :
                  /\ Len(columns[i % COLUMN_COUNT].posts) > i \div COLUMN_COUNT
                  /\ columns[i % COLUMN_COUNT].posts[(i \div COLUMN_COUNT) + 1]
                         = last.incoming[i + 1]
            /\ \A c \in ColumnIndexes :
                  Len(columns[c].posts) =
                      Cardinality({i \in 0 .. (k - 1) : i % COLUMN_COUNT = c})
            /\ \A c, e \in ColumnIndexes :
                  Len(columns[c].posts) - Len(columns[e].posts) <= 1

\* Five posts have been dealt: the fifth is under the first in column 0.
C8_Witness ==
    /\ last.op = "fetchOk"
    /\ last.prev = createEmptyColumns
    /\ last.incoming = <<1, 2, 3, 4, 5>>
    /\ columns[0].posts = <<1, 5>>
    /\ columns[3].posts = <<4>>

\* The column with the fewest identifiers, the lowest index among equals.
fewestColumn(idColumns) ==
    CHOOSE c \in ColumnIndexes :
        \A e \in ColumnIndexes :
            \/ Len(idColumns[c]) < Len(idColumns[e])
            \/ Len(idColumns[c]) = Len(idColumns[e]) /\ c <= e

\* The identifiers appended one after the other, each to the column that
\* is the fewest at its turn.
RECURSIVE appendedInTurn(_, _)
appendedInTurn(idColumns, ids) ==
    IF ids = <<>> THEN idColumns
    ELSE appendedInTurn(
             [idColumns EXCEPT ![fewestColumn(idColumns)] = Append(@, Head(ids))],
             Tail(ids))

\* The identifiers of the incoming items that were not on the board, in
\* incoming order.
newIdsOfLast ==
    SelectSeq([i \in DOMAIN last.incoming |-> getPostId(last.incoming[i])],
              LAMBDA id : ~isPlaced(last.prev, id))

\* C11: one reconciliation appends each new item, in incoming order, to the
\* column that holds the fewest items at that moment, items appended earlier
\* in the same reconciliation included, the lowest index among equals.
C11_EachNewToFewestColumn ==
    last.op = "fetchOk" =>
        [c \in ColumnIndexes |-> idsAt(columns, c)]
            = appendedInTurn([c \in ColumnIndexes |-> survivorsAt(c)], newIdsOfLast)

\* Post 1 stayed alone in column 1; post 2 went to column 0, the first of
\* the empty columns, and post 3 then to column 2.
C11_Witness ==
    /\ last.op = "fetchOk"
    /\ idsAt(last.prev, 1) = <<"1">>
    /\ last.incoming = <<1, 2, 3>>
    /\ idsAt(columns, 0) = <<"2">>
    /\ idsAt(columns, 1) = <<"1">>
    /\ idsAt(columns, 2) = <<"3">>

\* The column whose identity is id.
columnOfId(id) == CHOOSE c \in ColumnIndexes : columnId(c) = id

\* C12: a drop on a column's identity puts the dragged post at the last
\* position of that column, whether the column is another one or the
\* post's own.
C12_ColumnDropGoesLast ==
    (/\ last.op = "dragEnd"
     /\ last.over.present
     /\ last.over.id \in ColumnIds
     /\ isPlaced(last.prev, last.activeId))
    => LET ids == idsAt(columns, columnOfId(last.over.id))
       IN  /\ Len(ids) > 0
           /\ ids[Len(ids)] = last.activeId
           /\ placesOf(columns, last.activeId)
                  = {<<columnOfId(last.over.id), Len(ids)>>}

\* Post 1, on top of column 0, dropped on column 0 itself: it is now last.
C12_Witness ==
    /\ last.op = "dragEnd"
    /\ last.activeId = "1"
    /\ last.over = Over(columnId(0))
    /\ idsAt(last.prev, 0) = <<"1", "2", "3">>
    /\ idsAt(columns, 0) = <<"2", "3", "1">>

\* Post 1 of column 0 dropped on column 1, which held post 2: it follows 2.
C12_WitnessOtherColumn ==
    /\ last.op = "dragEnd"
    /\ last.activeId = "1"
    /\ last.over = Over(columnId(1))
    /\ idsAt(last.prev, 0) = <<"1">>
    /\ idsAt(last.prev, 1) = <<"2">>
    /\ idsAt(columns, 0) = <<>>
    /\ idsAt(columns, 1) = <<"2", "1">>

\* Every identifier a drag-end can name or a board can hold.
knownIds == {getPostId(p) : p \in BoardIds} \cup boardIds(columns) \cup boardIds(last.prev)

\* C13: a drag-end move neither loses nor duplicates a post: every
\* identifier is at as many places of the board after the move as before.
C13_MoveKeepsMultiset ==
    last.op = "dragEnd" =>
        \A id \in knownIds :
            Cardinality(placesOf(columns, id)) = Cardinality(placesOf(last.prev, id))

\* A move that changed the board: post 2 left column 0 for the empty
\* column 3, posts 1 and 3 stayed.
C13_Witness ==
    /\ last.op = "dragEnd"
    /\ last.activeId = "2"
    /\ idsAt(last.prev, 0) = <<"1", "2", "3">>
    /\ idsAt(columns, 0) = <<"1", "3">>
    /\ idsAt(columns, 3) = <<"2">>

\* A board that held post 1 twice still holds it twice after one of the
\* two was moved to column 1.
C13_WitnessRepeated ==
    /\ last.op = "dragEnd"
    /\ last.activeId = "1"
    /\ idsAt(last.prev, 0) = <<"1", "2", "1">>
    /\ idsAt(columns, 0) = <<"2", "1">>
    /\ idsAt(columns, 1) = <<"1">>

\* The posts of column c of cols other than the one with identifier id.
othersAt(cols, c, id) ==
    SelectSeq(cols[c].posts, LAMBDA post : getPostId(post) # id)

\* C14: a drag-end move changes only the position of the dragged post: a
\* column that neither held it nor receives it is the same afterwards, and
\* in every column the other posts are the same, in the same order.
C14_OnlyActiveMoves ==
    last.op = "dragEnd" =>
        \A c \in ColumnIndexes :
            /\ columns[c].id = last.prev[c].id
            /\ othersAt(columns, c, last.activeId) = othersAt(last.prev, c, last.activeId)
            /\ (~somePost(last.prev[c].posts, last.activeId)
                    /\ ~somePost(columns[c].posts, last.activeId))
                => columns[c] = last.prev[c]

\* Post 3 went from column 1 to column 0, between posts 1 and 2, which
\* kept their order.
C14_Witness ==
    /\ last.op = "dragEnd"
    /\ last.activeId = "3"
    /\ last.over = Over("2")
    /\ idsAt(last.prev, 0) = <<"1", "2">>
    /\ idsAt(last.prev, 1) = <<"3">>
    /\ idsAt(columns, 0) = <<"1", "3", "2">>
    /\ idsAt(columns, 1) = <<>>

\* The drop target of the last move is the card right below the dragged
\* one in the same column.
overFollowsActive ==
    /\ last.over.present
    /\ \E c \in ColumnIndexes :
          \E i \in 1 .. (Len(last.prev[c].posts) - 1) :
              /\ idsAt(last.prev, c)[i] = last.activeId
              /\ idsAt(last.prev, c)[i + 1] = last.over.id

\* C18: on a board of distinct posts, a post dropped on the card that
\* directly follows it in its column is taken out and put back at its old
\* index: the board is the same as before.
C18_DropOnFollowerKeepsBoard ==
    (last.op = "dragEnd" /\ overFollowsActive) => columns = last.prev

\* Post 2, between 1 and 3 in column 0, dropped on post 3.
C18_Witness ==
    /\ last.op = "dragEnd"
    /\ last.activeId = "2"
    /\ last.over = Over("3")
    /\ idsAt(last.prev, 0) = <<"1", "2", "3">>
    /\ idsAt(columns, 0) = <<"1", "2", "3">>

\* C17 as stated: a fetch that delivers a list of zero items leaves every
\* column with the identifiers it held.
C17_EmptyFetchKeepsBoard ==
    (last.op = "fetchOk" /\ last.incoming = <<>>) => columns = last.prev

\* C17, amended: a list of zero items is reconciled like any other list:
\* every identifier is stale and removed, and the four columns stay, empty,
\* under their identities.
C17_EmptyFetchClearsBoard ==
    (last.op = "fetchOk" /\ last.incoming = <<>>) =>
        /\ data = Loaded(<<>>)
        /\ \A c \in ColumnIndexes :
              /\ columns[c].posts = <<>>
              /\ columns[c].id = last.prev[c].id

\* A board that showed posts 1 and 2 is empty after the empty list.
C17_Witness ==
    /\ last.op = "fetchOk"
    /\ last.incoming = <<>>
    /\ idsAt(last.prev, 0) = <<"1">>
    /\ idsAt(last.prev, 1) = <<"2">>
    /\ ~hasPosts(columns)

\* The identities the page gives its columns, in column order.
fixedIdentities == <<"column-0", "column-1", "column-2", "column-3">>

\* C15: the board starts as exactly 4 empty columns and, after any
\* reconciliations and drag-end moves, is still exactly 4 columns with the
\* identities column-0 .. column-3 in that order.
C15_FourColumnsFixed ==
    /\ DOMAIN columns = 0 .. 3
    /\ \A c \in DOMAIN columns : columns[c].id = fixedIdentities[c + 1]
    /\ last.op = "render" => \A c \in DOMAIN columns : columns[c].posts = <<>>

\* Posts were fetched and one was dragged into the last column, which
\* still is column-3.
C15_Witness ==
    /\ last.op = "dragEnd"
    /\ data.defined /\ Len(data.posts) = 2
    /\ Len(columns[3].posts) = 1
    /\ Len(columns[0].posts) = 1
    /\ columns[3].id = "column-3"

\* Of the dragged card and the card it is dropped on, those that were
\* rendered when the gesture d began and are not on the board cols: a
\* reconciliation during the gesture has removed them.
vanishedDuring(d, over, cols) ==
    {id \in {d.id} \cup (IF over.present THEN {over.id} ELSE {}) :
        id \in d.shown /\ ~isPlaced(cols, id)}

\* C16: when a reconciliation between drag start and drag end has removed
\* the dragged post, or the post it is dropped on, the drag-end leaves the
\* board as the reconciliation produced it and puts the removed identifier
\* into no column.
C16_DropAfterRemovalKeepsBoard ==
    [][(last'.op = "dragEnd" /\ vanishedDuring(drag, last'.over, columns) # {})
        => /\ columns' = columns
           /\ \A id \in vanishedDuring(drag, last'.over, columns) :
                  ~isPlaced(columns', id)]_vars

\* The dragged post was removed during the gesture and the drop is on a
\* column of the board, which still shows another post.
C16_Witness ==
    /\ last.op = "dragEnd"
    /\ last.activeId \in last.shown
    /\ ~isPlaced(columns, last.activeId)
    /\ last.over.present /\ last.over.id \in ColumnIds
    /\ hasPosts(columns)

\* The card dropped on was removed during the gesture; the dragged post is
\* still on the board.
C16_WitnessTarget ==
    /\ last.op = "dragEnd"
    /\ isPlaced(columns, last.activeId)
    /\ last.over.present
    /\ last.over.id \in last.shown
    /\ ~isPlaced(columns, last.over.id)

\* The identifiers that were on the board the run began with, were dropped
\* by a reconciliation since, and are in the list reconciled last.
returningIds ==
    {id \in boardIds(last.first) :
        /\ ~isPlaced(last.prev, id)
        /\ id \in incomingIds(last.incoming)}

\* C19: an identifier that one reconciliation dropped and a later list
\* brings back is placed as a new one: in its turn among the new items it
\* is appended to the end of the column that is then the fewest (lowest
\* index among equals), whatever column and position it held before.
C19_ReturningIsNew ==
    last.op = "fetchAgain" =>
        \A id \in returningIds :
            \E k \in DOMAIN newIdsOfLast :
                /\ newIdsOfLast[k] = id
                /\ LET before == appendedInTurn(
                                     [c \in ColumnIndexes |-> survivorsAt(c)],
                                     SubSeq(newIdsOfLast, 1, k - 1))
                       target == fewestColumn(before)
                   IN  placesOf(columns, id) = {<<target, Len(before[target]) + 1>>}

\* Post 2 held column 2, was dropped by the list [1] and comes back with
\* the list [1, 2]: it goes to column 0, the first empty column.
C19_Witness ==
    /\ last.op = "fetchAgain"
    /\ idsAt(last.first, 1) = <<"1">>
    /\ idsAt(last.first, 2) = <<"2">>
    /\ ~isPlaced(last.prev, "2")
    /\ last.incoming = <<1, 2>>
    /\ idsAt(columns, 0) = <<"2">>
    /\ idsAt(columns, 2) = <<>>

====
